---- MODULE Spec2Model ----
(***************************************************************************)
(* House heating simulation (src/src/artifacts/index.tsx).                 *)
(*                                                                         *)
(* The component HouseHeatingSimulation keeps seven simulation parameters, *)
(* two display toggles, the stored series (simulationData) and the stored  *)
(* summary as React state.  runSimulation() integrates the indoor          *)
(* temperature of two heating modes side by side in one loop of            *)
(* TOTAL_STEPS iterations and stores both series and the summary.          *)
(*                                                                         *)
(* Numbers.  The program computes in IEEE doubles.  The model computes     *)
(* temperatures in fixed point: temperatures and rates in units of 1/FX    *)
(* degree F (per hour), heat flows in 1/HU BTU/hr.  Every arithmetic step  *)
(* of the code is kept, in the code's order, and rounded to the unit of    *)
(* its result.  The energy accumulators are modelled as the doubles they   *)
(* are, bit for bit: a sum of doubles is rounded to 53 significant bits.   *)
(* Text produced by toFixed is modelled by the number it prints, and the   *)
(* three non-finite doubles by the strings "NaN", "Infinity" and           *)
(* "-Infinity".                                                            *)
(***************************************************************************)
EXTENDS Integers, Sequences, FiniteSets, TLC

(***************************************************************************)
(* State.                                                                  *)
(***************************************************************************)
VARIABLES
    outsideTemp, desiredTemp, insulation, houseHeatCapacity, heaterOutput,
    diurnalVariation, thermostatHysteresis,     \* the seven parameters
    simulationData, summary,                    \* the stored results
    showAdvanced, useCelsius,                   \* display toggles
    pc,                                         \* "effect", "loop" or "idle"
    step,                                       \* the loop counter
    mode1Temp, mode1HeaterOn, mode1EnergyUsed, mode1HeaterOnCount, mode1Data,
    mode2Temp, mode2HeaterOn, mode2EnergyUsed, mode2HeaterOnCount, mode2Data,
    edits                                       \* user events so far

params == <<outsideTemp, desiredTemp, insulation, houseHeatCapacity,
            heaterOutput, diurnalVariation, thermostatHysteresis>>
stored == <<simulationData, summary>>
toggles == <<showAdvanced, useCelsius>>
mode1 == <<mode1Temp, mode1HeaterOn, mode1EnergyUsed, mode1HeaterOnCount, mode1Data>>
mode2 == <<mode2Temp, mode2HeaterOn, mode2EnergyUsed, mode2HeaterOnCount, mode2Data>>
locals == <<step, mode1, mode2>>
vars == <<params, stored, toggles, pc, locals, edits>>

(***************************************************************************)
(* Fixed-point helpers.                                                    *)
(***************************************************************************)
FX == 10^6          \* units per degree F (and per degree F / hour)
LIMB == 10^3        \* FX = LIMB * LIMB
HU == 10^3          \* heat-flow units per BTU/hr

Abs(x) == IF x < 0 THEN -x ELSE x

\* a / c rounded to the nearest integer, halves away from zero (c # 0).
RoundDiv(a, c) ==
    LET n == (2 * Abs(a) + Abs(c)) \div (2 * Abs(c))
    IN  IF (a < 0) = (c < 0) THEN n ELSE -n

\* a * b / c rounded to nearest, without forming a * b (b >= 0, c > 0).
MulDiv(a, b, c) == (a \div c) * b + ((a % c) * b + c \div 2) \div c

\* The product of two fixed-point numbers, x * y / FX, rounded to nearest.
FixMul(x, y) ==
    LET x1 == x \div LIMB
        x0 == x % LIMB
        y1 == y \div LIMB
        y0 == y % LIMB
    IN  x1 * y1 + (x1 * y0 + x0 * y1 + (x0 * y0) \div LIMB + LIMB \div 2) \div LIMB


(***************************************************************************)
(* Constants of the component (index.tsx lines 58-62, 319-323).            *)
(***************************************************************************)
SECONDS_PER_STEP == 10
STEPS_PER_HOUR == 3600 \div SECONDS_PER_STEP
HOURS_SIMULATED == 24
TOTAL_STEPS == HOURS_SIMULATED * STEPS_PER_HOUR

\* The summary's percentages are computed from energies in units of 1/EU BTU.
EU == STEPS_PER_HOUR \div 10

(***************************************************************************)
(* Doubles of the energy accumulators.                                     *)
(*                                                                         *)
(* A double d with d = 0 or 32 <= d < 2^30 is a whole number of units of   *)
(* 2^-48; it is kept as that number, in four limbs of DBITS bits, lowest   *)
(* limb first.  heaterOutput / STEPS_PER_HOUR lies in that range for every *)
(* heaterOutput of 11520 and more, and so do the sums of the run.          *)
(***************************************************************************)
DBITS == 20
DB == 2^DBITS

\* The double 0.
DZero == <<0, 0, 0, 0>>

\* Limbs brought back into 0 .. DB - 1, the carries moved up.
Carry(a) ==
    LET t2 == a[2] + a[1] \div DB
        t3 == a[3] + t2 \div DB
        t4 == a[4] + t3 \div DB
    IN  <<a[1] % DB, t2 % DB, t3 % DB, t4>>

\* The number of bits of n, 0 <= n < 2^30.
BitLength(n) == IF n = 0 THEN 0 ELSE CHOOSE k \in 1..30 : 2^(k - 1) <= n /\ n < 2^k

\* The number of bits of a number of units.
Bits(a) ==
    IF a[4] # 0 THEN 3 * DBITS + BitLength(a[4])
    ELSE IF a[3] # 0 THEN 2 * DBITS + BitLength(a[3])
    ELSE IF a[2] # 0 THEN DBITS + BitLength(a[2])
    ELSE BitLength(a[1])

\* The integer n (0 <= n < 2^31) in units of 2^-48.
Exact(n) == <<0, 0, (n % 2^12) * 2^8, n \div 2^12>>

\* a, exact, as the double nearest to it: 53 significant bits, a tie goes
\* to the even neighbour.  sticky: the true value is a little more than a.
RoundToDouble(a, sticky) ==
    LET r    == Bits(a) - 53
        low  == a[1] % 2^r
        half == 2^(r - 1)
        odd  == (a[1] \div 2^r) % 2 = 1
        up   == low > half \/ (low = half /\ (sticky \/ odd))
        down == <<a[1] - low, a[2], a[3], a[4]>>
    IN  IF r <= 0 THEN a
        ELSE IF up THEN Carry(<<down[1] + 2^r, down[2], down[3], down[4]>>)
        ELSE down

\* a + b in doubles.
DoubleAdd(a, b) ==
    RoundToDouble(Carry(<<a[1] + b[1], a[2] + b[2], a[3] + b[3], a[4] + b[4]>>), FALSE)

\* n / d in doubles, for integers n and d (0 <= n, 0 < d < 2048, n = 0 or n >= 32 d).
DoubleDivide(n, d) ==
    LET a  == Exact(n)
        q4 == a[4] \div d
        r4 == a[4] % d
        q3 == (r4 * DB + a[3]) \div d
        r3 == (r4 * DB + a[3]) % d
        q2 == (r3 * DB + a[2]) \div d
        r2 == (r3 * DB + a[2]) % d
        q1 == (r2 * DB + a[1]) \div d
        r1 == (r2 * DB + a[1]) % d
    IN  RoundToDouble(<<q1, q2, q3, q4>>, r1 # 0)

\* a < b
DoubleLess(a, b) ==
    \/ a[4] < b[4]
    \/ a[4] = b[4] /\ a[3] < b[3]
    \/ a[4] = b[4] /\ a[3] = b[3] /\ a[2] < b[2]
    \/ a[4] = b[4] /\ a[3] = b[3] /\ a[2] = b[2] /\ a[1] < b[1]

\* k times a, exact (0 <= k < 1024).
Times(a, k) == Carry(<<a[1] * k, a[2] * k, a[3] * k, a[4] * k>>)

\* The integer nearest to a, a tie going up (what toFixed(0) prints).
Nearest(a) == a[4] * 2^12 + a[3] \div 2^8 + (IF a[3] % 2^8 >= 2^7 THEN 1 ELSE 0)

(***************************************************************************)
(* Math.sin and Math.PI, at the model's resolution.                        *)
(***************************************************************************)
PI_FX == 3141593

\* sin x for 0 <= x <= pi/2: the Taylor polynomial up to x^11, Horner form.
SinQuadrant(x) ==
    LET x2 == FixMul(x, x)
        t5 == FX - RoundDiv(x2, 110)
        t4 == FX - RoundDiv(FixMul(x2, t5), 72)
        t3 == FX - RoundDiv(FixMul(x2, t4), 42)
        t2 == FX - RoundDiv(FixMul(x2, t3), 20)
        t1 == FX - RoundDiv(FixMul(x2, t2), 6)
    IN  FixMul(x, t1)

\* Math.sin(a), a in radians.
MathSin(a) ==
    LET r == a % (2 * PI_FX)
    IN  IF r <= PI_FX \div 2 THEN SinQuadrant(r)
        ELSE IF r <= PI_FX THEN SinQuadrant(PI_FX - r)
        ELSE IF 2 * r <= 3 * PI_FX THEN -SinQuadrant(r - PI_FX)
        ELSE -SinQuadrant(2 * PI_FX - r)

(***************************************************************************)
(* The body of runSimulation's loop, expression by expression.             *)
(***************************************************************************)
\* const heatLossCoefficient = 1000 / insulation   (in 1/HU BTU/hr per F)
HeatLossCoefficient(ins) == RoundDiv(1000 * HU, ins)

\* const timeInHours = step / STEPS_PER_HOUR
TimeInHours(s) == MulDiv(FX, s, STEPS_PER_HOUR)

\* const hour = Math.floor(timeInHours)
Hour(s) == TimeInHours(s) \div FX

\* const minute = Math.floor((timeInHours - hour) * 60)
Minute(s) == ((TimeInHours(s) - Hour(s) * FX) * 60) \div FX

\* outsideTemp + (diurnalVariation / 2) * Math.sin((2 * Math.PI * (timeInHours - 9)) / 24)
EffectiveOutsideTemp(base, diurnal, s) ==
    LET angle == RoundDiv(FixMul(2 * PI_FX, TimeInHours(s) - 9 * FX), 24)
    IN  base * FX + RoundDiv(diurnal * MathSin(angle), 2)

\* thermostatHysteresis / 2   (thermostatHysteresis is kept in hundredths of F)
HalfBand(hyst) == (hyst * (FX \div 100)) \div 2

\* A controller without the dead zone: ON below the lower threshold, OFF
\* everywhere else.
Mode1Controller_NoHold(temp, heaterOn, desired, hyst) ==
    temp < desired * FX - HalfBand(hyst)

\* Bang-bang controller with hysteresis for Mode 1 (lines 139-146).
Mode1Controller(temp, heaterOn, desired, hyst) ==
    LET mode1TargetTemp == desired * FX
    IN  IF temp < mode1TargetTemp - HalfBand(hyst) THEN TRUE
        ELSE IF temp > mode1TargetTemp + HalfBand(hyst) THEN FALSE
        ELSE heaterOn

\* The night window with its first hour left out.
Mode2HeatingDisabled_LateStart(hour) == hour > 22 \/ hour < 8

\* Mode 2: heating is disabled between 10PM and 8AM (lines 150-155).
Mode2HeatingDisabled(hour) == hour >= 22 \/ hour < 8

\* A mode-2 controller that never disables the heating.
Mode2Controller_NoSetback(temp, heaterOn, desired, hyst, hour) ==
    Mode1Controller(temp, heaterOn, desired, hyst)

\* Bang-bang controller with hysteresis for Mode 2 (lines 157-166).
Mode2Controller(temp, heaterOn, desired, hyst, hour) ==
    LET mode2TargetTemp == desired * FX
    IN  IF ~Mode2HeatingDisabled(hour)
        THEN IF temp < mode2TargetTemp - HalfBand(hyst) THEN TRUE
             ELSE IF temp > mode2TargetTemp + HalfBand(hyst) THEN FALSE
             ELSE heaterOn
        ELSE FALSE

\* const mode1HeaterOutputValue = mode1HeaterOn ? heaterOutput : 0
HeaterOutputValue(heaterOn, output) == IF heaterOn THEN output ELSE 0

\* A derivative with the heat loss taken as a heat gain.
Derivative_HeatGain(T, outputValue, outside, lossCoeff, capacity) ==
    MulDiv(outputValue * HU + FixMul(T - outside, lossCoeff), FX \div HU, capacity)

\* (heaterOutputValue - (T - effectiveOutsideTemp) * heatLossCoefficient) / houseHeatCapacity
Derivative(T, outputValue, outside, lossCoeff, capacity) ==
    MulDiv(outputValue * HU - FixMul(T - outside, lossCoeff), FX \div HU, capacity)

\* x * dt, with dt = SECONDS_PER_STEP / 3600 hours
TimesDt(x) == MulDiv(x, SECONDS_PER_STEP, 3600)

\* The weighted sum of the four slopes times dt, the division by 6 left out.
TimesDtOver6_NoSixth(x) == MulDiv(x, SECONDS_PER_STEP, 3600)

\* (dt / 6) * x
TimesDtOver6(x) == MulDiv(x, SECONDS_PER_STEP, 3600 * 6)

\* RK4 integration for Mode 1 (lines 169-181): the new mode1Temp.
Mode1Integrate(T, heaterOn, output, outside, lossCoeff, capacity) ==
    LET mode1HeaterOutputValue == HeaterOutputValue(heaterOn, output)
        f1(x) == Derivative(x, mode1HeaterOutputValue, outside, lossCoeff, capacity)
        k1 == f1(T)
        k2 == f1(T + RoundDiv(TimesDt(k1), 2))
        k3 == f1(T + RoundDiv(TimesDt(k2), 2))
        k4 == f1(T + TimesDt(k3))
        deltaT1 == TimesDtOver6(k1 + 2 * k2 + 2 * k3 + k4)
    IN  T + deltaT1

\* RK4 integration for Mode 2 (lines 183-195): the new mode2Temp.
Mode2Integrate(T, heaterOn, output, outside, lossCoeff, capacity) ==
    LET mode2HeaterOutputValue == HeaterOutputValue(heaterOn, output)
        f2(x) == Derivative(x, mode2HeaterOutputValue, outside, lossCoeff, capacity)
        k1 == f2(T)
        k2 == f2(T + RoundDiv(TimesDt(k1), 2))
        k3 == f2(T + RoundDiv(TimesDt(k2), 2))
        k4 == f2(T + TimesDt(k3))
        deltaT2 == TimesDtOver6(k1 + 2 * k2 + 2 * k3 + k4)
    IN  T + deltaT2

\* The heater output divided by the seconds of a step, not the steps of an hour.
EnergyPerStep_PerSecond(output) == DoubleDivide(output, SECONDS_PER_STEP)

\* heaterOutput / STEPS_PER_HOUR   (lines 198, 203)
EnergyPerStep(output) == DoubleDivide(output, STEPS_PER_HOUR)

\* parseFloat(x.toFixed(2)): x rounded to hundredths
ToFixed2(x) == RoundDiv(x, FX \div 100) * (FX \div 100)

(***************************************************************************)
(* The summary (lines 235-248).                                            *)
(***************************************************************************)
\* A double printed by toFixed: a finite number (value, in the unit of the
\* last printed digit) or one of the texts "NaN", "Infinity", "-Infinity".
Printed(v) == [kind |-> "number", value |-> v]
NonFinite(k) == [kind |-> k, value |-> 0]

\* (n / d * 100).toFixed(2) for d > 0, in hundredths of a percent: long
\* division, digit by digit.
Percent2(n, d) ==
    LET a  == Abs(n)
        q0 == a \div d
        r0 == a % d
        q1 == (r0 * 10) \div d
        r1 == (r0 * 10) % d
        q2 == (r1 * 10) \div d
        r2 == (r1 * 10) % d
        q3 == (r2 * 10) \div d
        r3 == (r2 * 10) % d
        q4 == (r3 * 10) \div d
        r4 == (r3 * 10) % d
        up == IF 2 * r4 >= d THEN 1 ELSE 0
        m  == q0 * 10000 + q1 * 1000 + q2 * 100 + q3 * 10 + q4 + up
    IN  IF n < 0 THEN -m ELSE m

\* ((mode1EnergyUsed - mode2EnergyUsed) / mode1EnergyUsed * 100).toFixed(2)
\* A double division by zero yields NaN (0 / 0) or an infinity.
\* The quotient is taken of the energies rounded to 1/EU BTU.
Savings(e1, e2) ==
    LET n1 == Nearest(Times(e1, EU))
        n2 == Nearest(Times(e2, EU))
    IN  IF e1 # DZero THEN Printed(Percent2(n1 - n2, n1))
        ELSE IF e2 = DZero THEN NonFinite("NaN")
        ELSE NonFinite("-Infinity")

\* The duty cycle taken over one hour's steps instead of the whole run.
DutyCycle_PerHour(count) == Printed(RoundDiv(count * 10000, STEPS_PER_HOUR))

\* ((count / TOTAL_STEPS) * 100).toFixed(2), in hundredths of a percent
DutyCycle(count) == Printed(RoundDiv(count * 10000, TOTAL_STEPS))

\* energy.toFixed(0), in BTU
EnergyFixed0(e) == Printed(Nearest(e))

(***************************************************************************)
(* Bounds of the model.                                                    *)
(*                                                                         *)
(* An array that is only pushed to (mode1Data, mode2Data) is kept as its   *)
(* length and its last Window elements.  A behaviour holds at most         *)
(* MaxEdits user events.  Configs are the slider positions the user moves  *)
(* between: the initial ones and, for each slider, one other position      *)
(* within its range (lines 319-323 and 362-486).  Inputs are the parameter *)
(* values runSimulation is applied to when it is studied as a function.    *)
(***************************************************************************)
Window == 2
MaxEdits == 1

Config(o, d, i, c, h, v, t) ==
    [outsideTemp |-> o, desiredTemp |-> d, insulation |-> i,
     houseHeatCapacity |-> c, heaterOutput |-> h, diurnalVariation |-> v,
     thermostatHysteresis |-> t]

\* The useState initial values (lines 37-43).
Defaults == Config(30, 68, 5, 4000, 60000, 15, 200)

Configs ==
    { Defaults,
      [Defaults EXCEPT !.outsideTemp = 60],
      [Defaults EXCEPT !.desiredTemp = 50],
      [Defaults EXCEPT !.insulation = 3],
      [Defaults EXCEPT !.houseHeatCapacity = 8000],
      [Defaults EXCEPT !.heaterOutput = 40000],
      [Defaults EXCEPT !.diurnalVariation = 0],
      [Defaults EXCEPT !.thermostatHysteresis = 100] }

Inputs ==
    { [Defaults EXCEPT !.diurnalVariation = 0],
      [Defaults EXCEPT !.outsideTemp = 60, !.desiredTemp = 50],
      [Defaults EXCEPT !.insulation = -10],
      [Defaults EXCEPT !.heaterOutput = 0],
      [Defaults EXCEPT !.heaterOutput = 0, !.outsideTemp = 60, !.insulation = 1,
                       !.diurnalVariation = 30],
      [Defaults EXCEPT !.heaterOutput = 0, !.outsideTemp = 60, !.insulation = 1,
                       !.houseHeatCapacity = 2000, !.diurnalVariation = 16] }

(***************************************************************************)
(* One loop iteration (lines 123-227), piece by piece.                     *)
(***************************************************************************)
\* The energy of the step at hand instead of the running total.
EnergyAfter_PerStep(energy, heaterOn, output) ==
    IF heaterOn THEN EnergyPerStep(output) ELSE DZero

\* if (heaterOn) { energyUsed += heaterOutput / STEPS_PER_HOUR; ... }
EnergyAfter(energy, heaterOn, output) ==
    IF heaterOn THEN DoubleAdd(energy, EnergyPerStep(output)) ELSE energy

\* if (heaterOn) { ...; heaterOnCount++; }
CountAfter(count, heaterOn) == IF heaterOn THEN count + 1 ELSE count

\* The object pushed on mode1Data (lines 209-216).
Mode1Record(s, temp, outside, heaterOn, energy) ==
    [time        |-> <<Hour(s), Minute(s)>>,
     hour        |-> Hour(s),
     temperature |-> ToFixed2(temp),
     outsideTemp |-> ToFixed2(outside),
     heaterOn    |-> heaterOn,
     energyUsed  |-> energy]

\* A record that stores the outsideTemp parameter, not the effective value.
Mode2Record_BaseOutside(s, temp, outside, heaterOn, energy) ==
    [time        |-> <<Hour(s), Minute(s)>>,
     hour        |-> Hour(s),
     temperature |-> ToFixed2(temp),
     outsideTemp |-> ToFixed2(outsideTemp * FX),
     heaterOn    |-> heaterOn,
     energyUsed  |-> energy]

\* The object pushed on mode2Data (lines 219-226).
Mode2Record(s, temp, outside, heaterOn, energy) ==
    [time        |-> <<Hour(s), Minute(s)>>,
     hour        |-> Hour(s),
     temperature |-> ToFixed2(temp),
     outsideTemp |-> ToFixed2(outside),
     heaterOn    |-> heaterOn,
     energyUsed  |-> energy]

\* const mode1Data: SimulationData[] = []
EmptyData == [length |-> 0, tail |-> <<>>]

\* A push that records only the steps with the heater ON.
Push_OnlyWhenOn(data, rec) ==
    IF rec.heaterOn
    THEN [length |-> data.length + 1,
          tail   |-> IF Len(data.tail) < Window THEN Append(data.tail, rec)
                     ELSE Append(Tail(data.tail), rec)]
    ELSE data

\* data.push(rec)
Push(data, rec) ==
    [length |-> data.length + 1,
     tail   |-> IF Len(data.tail) < Window THEN Append(data.tail, rec)
                ELSE Append(Tail(data.tail), rec)]

\* The mode-2 decision taken on the mode-1 temperature.
Mode2Decision_Mode1Temp ==
    Mode2Controller(mode1Temp, mode2HeaterOn, desiredTemp, thermostatHysteresis,
                    Hour(step))

\* The heater states decided in the iteration at hand.
Mode1Decision ==
    Mode1Controller(mode1Temp, mode1HeaterOn, desiredTemp, thermostatHysteresis)
Mode2Decision ==
    Mode2Controller(mode2Temp, mode2HeaterOn, desiredTemp, thermostatHysteresis,
                    Hour(step))

\* The outside temperature of the iteration at hand.
effectiveOutsideTemp == EffectiveOutsideTemp(outsideTemp, diurnalVariation, step)

\* The mode-1 integration run against the outsideTemp parameter, the diurnal
\* variation left out.
Mode1NextTemp_BaseOutside ==
    Mode1Integrate(mode1Temp, Mode1Decision, heaterOutput, outsideTemp * FX,
                   HeatLossCoefficient(insulation), houseHeatCapacity)

\* The mode-2 integration run with the heater state of the step before: the
\* integration placed ahead of the controller.
Mode2NextTemp_BeforeDecision ==
    Mode2Integrate(mode2Temp, mode2HeaterOn, heaterOutput, effectiveOutsideTemp,
                   HeatLossCoefficient(insulation), houseHeatCapacity)

\* The temperatures after the iteration at hand.
Mode1NextTemp ==
    Mode1Integrate(mode1Temp, Mode1Decision, heaterOutput, effectiveOutsideTemp,
                   HeatLossCoefficient(insulation), houseHeatCapacity)
Mode2NextTemp ==
    Mode2Integrate(mode2Temp, Mode2Decision, heaterOutput, effectiveOutsideTemp,
                   HeatLossCoefficient(insulation), houseHeatCapacity)

(***************************************************************************)
(* Actions.                                                                *)
(***************************************************************************)
\* useState initial values of simulationData and summary (lines 44-54).
NoData == [mode1 |-> EmptyData, mode2 |-> EmptyData]
NoSummary ==
    [mode1Energy |-> Printed(0), mode2Energy |-> Printed(0), savings |-> Printed(0),
     mode1DutyCycle |-> Printed(0), mode2DutyCycle |-> Printed(0)]

\* The component right after mounting with parameters c: the effect that
\* runs the simulation is pending, runSimulation's locals do not exist yet.
Mounted(c) ==
    /\ outsideTemp = c.outsideTemp
    /\ desiredTemp = c.desiredTemp
    /\ insulation = c.insulation
    /\ houseHeatCapacity = c.houseHeatCapacity
    /\ heaterOutput = c.heaterOutput
    /\ diurnalVariation = c.diurnalVariation
    /\ thermostatHysteresis = c.thermostatHysteresis
    /\ simulationData = NoData
    /\ summary = NoSummary
    /\ showAdvanced = FALSE
    /\ useCelsius = FALSE
    /\ pc = "effect"
    /\ step = 0
    /\ mode1Temp = 0 /\ mode1HeaterOn = FALSE /\ mode1EnergyUsed = DZero
    /\ mode1HeaterOnCount = 0 /\ mode1Data = EmptyData
    /\ mode2Temp = 0 /\ mode2HeaterOn = FALSE /\ mode2EnergyUsed = DZero
    /\ mode2HeaterOnCount = 0 /\ mode2Data = EmptyData
    /\ edits = 0

Init == Mounted(Defaults)

\* useEffect fires: runSimulation starts (lines 103-121).
RunSimulationStart ==
    /\ pc = "effect"
    /\ pc' = "loop"
    /\ step' = 0
    /\ mode1Temp' = desiredTemp * FX
    /\ mode1HeaterOn' = FALSE
    /\ mode1EnergyUsed' = DZero
    /\ mode1HeaterOnCount' = 0
    /\ mode1Data' = EmptyData
    /\ mode2Temp' = desiredTemp * FX
    /\ mode2HeaterOn' = FALSE
    /\ mode2EnergyUsed' = DZero
    /\ mode2HeaterOnCount' = 0
    /\ mode2Data' = EmptyData
    /\ UNCHANGED <<params, stored, toggles, edits>>

\* One iteration of the loop (lines 123-227).
LoopStep ==
    /\ pc = "loop"
    /\ step < TOTAL_STEPS
    /\ mode1HeaterOn' = Mode1Decision
    /\ mode2HeaterOn' = Mode2Decision
    /\ mode1Temp' = Mode1NextTemp
    /\ mode2Temp' = Mode2NextTemp
    /\ mode1EnergyUsed' = EnergyAfter(mode1EnergyUsed, mode1HeaterOn', heaterOutput)
    /\ mode1HeaterOnCount' = CountAfter(mode1HeaterOnCount, mode1HeaterOn')
    /\ mode2EnergyUsed' = EnergyAfter(mode2EnergyUsed, mode2HeaterOn', heaterOutput)
    /\ mode2HeaterOnCount' = CountAfter(mode2HeaterOnCount, mode2HeaterOn')
    /\ mode1Data' = Push(mode1Data,
                         Mode1Record(step, mode1Temp', effectiveOutsideTemp,
                                     mode1HeaterOn', mode1EnergyUsed'))
    /\ mode2Data' = Push(mode2Data,
                         Mode2Record(step, mode2Temp', effectiveOutsideTemp,
                                     mode2HeaterOn', mode2EnergyUsed'))
    /\ step' = step + 1
    /\ UNCHANGED <<params, stored, toggles, pc, edits>>

\* The loop is over: the results are stored (lines 229-248).
RunSimulationFinish ==
    /\ pc = "loop"
    /\ ~(step < TOTAL_STEPS)
    /\ simulationData' = [mode1 |-> mode1Data, mode2 |-> mode2Data]
    /\ summary' = [mode1Energy    |-> EnergyFixed0(mode1EnergyUsed),
                   mode2Energy    |-> EnergyFixed0(mode2EnergyUsed),
                   savings        |-> Savings(mode1EnergyUsed, mode2EnergyUsed),
                   mode1DutyCycle |-> DutyCycle(mode1HeaterOnCount),
                   mode2DutyCycle |-> DutyCycle(mode2HeaterOnCount)]
    /\ pc' = "idle"
    /\ UNCHANGED <<params, toggles, locals, edits>>

\* The parameters as one configuration.
CurrentConfig ==
    Config(outsideTemp, desiredTemp, insulation, houseHeatCapacity, heaterOutput,
           diurnalVariation, thermostatHysteresis)

\* An edit after which no effect runs: the parameter is missing from the
\* effect's dependency list.
Edited_NoRerun(field, v) ==
    /\ pc = "idle"
    /\ edits < MaxEdits
    /\ v # CurrentConfig[field]
    /\ [CurrentConfig EXCEPT ![field] = v] \in Configs
    /\ edits' = edits + 1
    /\ pc' = "idle"
    /\ UNCHANGED <<stored, toggles, locals>>

\* A slider's onChange handler has set one parameter to a new value: the
\* component renders again and the effect of lines 315-317 is pending.
Edited(field, v) ==
    /\ pc = "idle"
    /\ edits < MaxEdits
    /\ v # CurrentConfig[field]
    /\ [CurrentConfig EXCEPT ![field] = v] \in Configs
    /\ edits' = edits + 1
    /\ pc' = "effect"
    /\ UNCHANGED <<stored, toggles, locals>>

\* onChange={(e) => setOutsideTemp(parseInt(e.target.value))}   (line 368)
SetOutsideTemp ==
    \E v \in {c.outsideTemp : c \in Configs} :
        /\ Edited("outsideTemp", v)
        /\ outsideTemp' = v
        /\ UNCHANGED <<desiredTemp, insulation, houseHeatCapacity, heaterOutput,
                       diurnalVariation, thermostatHysteresis>>

\* setDesiredTemp(parseInt(e.target.value))   (line 386)
SetDesiredTemp ==
    \E v \in {c.desiredTemp : c \in Configs} :
        /\ Edited("desiredTemp", v)
        /\ desiredTemp' = v
        /\ UNCHANGED <<outsideTemp, insulation, houseHeatCapacity, heaterOutput,
                       diurnalVariation, thermostatHysteresis>>

\* setInsulation(parseInt(e.target.value))   (line 417)
SetInsulation ==
    \E v \in {c.insulation : c \in Configs} :
        /\ Edited("insulation", v)
        /\ insulation' = v
        /\ UNCHANGED <<outsideTemp, desiredTemp, houseHeatCapacity, heaterOutput,
                       diurnalVariation, thermostatHysteresis>>

\* setHeaterOutput(parseInt(e.target.value))   (line 435)
SetHeaterOutput ==
    \E v \in {c.heaterOutput : c \in Configs} :
        /\ Edited("heaterOutput", v)
        /\ heaterOutput' = v
        /\ UNCHANGED <<outsideTemp, desiredTemp, insulation, houseHeatCapacity,
                       diurnalVariation, thermostatHysteresis>>

\* setHouseHeatCapacity(parseInt(e.target.value))   (line 450)
SetHouseHeatCapacity ==
    \E v \in {c.houseHeatCapacity : c \in Configs} :
        /\ Edited("houseHeatCapacity", v)
        /\ houseHeatCapacity' = v
        /\ UNCHANGED <<outsideTemp, desiredTemp, insulation, heaterOutput,
                       diurnalVariation, thermostatHysteresis>>

\* setDiurnalVariation(parseInt(e.target.value))   (line 467)
SetDiurnalVariation ==
    \E v \in {c.diurnalVariation : c \in Configs} :
        /\ Edited("diurnalVariation", v)
        /\ diurnalVariation' = v
        /\ UNCHANGED <<outsideTemp, desiredTemp, insulation, houseHeatCapacity,
                       heaterOutput, thermostatHysteresis>>

\* setThermostatHysteresis(parseFloat(e.target.value))   (line 485)
SetThermostatHysteresis ==
    \E v \in {c.thermostatHysteresis : c \in Configs} :
        /\ Edited("thermostatHysteresis", v)
        /\ thermostatHysteresis' = v
        /\ UNCHANGED <<outsideTemp, desiredTemp, insulation, houseHeatCapacity,
                       heaterOutput, diurnalVariation>>

\* toggleAdvanced (lines 305-307): no parameter changes, no effect runs.
ToggleAdvanced ==
    /\ pc = "idle"
    /\ edits < MaxEdits
    /\ showAdvanced' = ~showAdvanced
    /\ edits' = edits + 1
    /\ UNCHANGED <<params, stored, useCelsius, pc, locals>>

\* toggleTemperatureUnit (lines 310-312): no parameter changes, no effect runs.
ToggleTemperatureUnit ==
    /\ pc = "idle"
    /\ edits < MaxEdits
    /\ useCelsius' = ~useCelsius
    /\ edits' = edits + 1
    /\ UNCHANGED <<params, stored, showAdvanced, pc, locals>>

\* runSimulation, from the pending effect to the stored results.
Run ==
    \/ RunSimulationStart
    \/ LoopStep
    \/ RunSimulationFinish

Next ==
    \/ Run
    \/ SetOutsideTemp
    \/ SetDesiredTemp
    \/ SetInsulation
    \/ SetHeaterOutput
    \/ SetHouseHeatCapacity
    \/ SetDiurnalVariation
    \/ SetThermostatHysteresis
    \/ ToggleAdvanced
    \/ ToggleTemperatureUnit

\* The component: mounted with the initial parameters, then used.
Spec == Init /\ [][Next]_vars

\* runSimulation as a function of the seven parameters: one run per input.
InitInputs == \E c \in Inputs : Mounted(c)
SpecInputs == InitInputs /\ [][Run]_vars

(***************************************************************************)
(* Properties.                                                             *)
(***************************************************************************)
\* The elements of a sequence.
Range(seq) == {seq[i] : i \in 1..Len(seq)}

\* The four series of the state: the two under construction, the two stored.
Mode2Series == {mode2Data, simulationData.mode2}
Mode1Series == {mode1Data, simulationData.mode1}
AllSeries == Mode1Series \cup Mode2Series

\* The controller's thresholds, target -/+ band / 2.
LowerThreshold == desiredTemp * FX - (thermostatHysteresis * FX) \div 200
UpperThreshold == desiredTemp * FX + (thermostatHysteresis * FX) \div 200

\* The night window 22:00-08:00.
InNightWindow(h) == (22 <= h /\ h < 24) \/ (0 <= h /\ h < 8)

Hysteresis(temp, previous) ==
    IF temp < LowerThreshold THEN TRUE
    ELSE IF temp > UpperThreshold THEN FALSE
    ELSE previous

\* The rule of C2 on one step of the program.
C2_HysteresisStep ==
    /\ RunSimulationStart => ~mode1HeaterOn' /\ ~mode2HeaterOn'
    /\ LoopStep =>
        /\ mode1HeaterOn' = Hysteresis(mode1Temp, mode1HeaterOn)
        /\ ~InNightWindow(Hour(step)) =>
               mode2HeaterOn' = Hysteresis(mode2Temp, mode2HeaterOn)
        /\ ~mode1HeaterOn /\ mode1HeaterOn' => mode1Temp < LowerThreshold
        /\ mode1HeaterOn /\ ~mode1HeaterOn' => mode1Temp > UpperThreshold
        /\ ~mode2HeaterOn /\ mode2HeaterOn' => mode2Temp < LowerThreshold
        /\ mode2HeaterOn /\ ~mode2HeaterOn' =>
               mode2Temp > UpperThreshold \/ InNightWindow(Hour(step))

\* C2: in every step where heating is not suppressed the decided heater
\* state is ON below target - band/2, OFF above target + band/2 and the
\* previous state otherwise (initially OFF); the heater goes OFF->ON only
\* below the lower threshold and ON->OFF only above the upper threshold or
\* under night suppression.
C2_Hysteresis == [][C2_HysteresisStep]_vars

\* C2's case: a step taken inside the dead zone has kept the heater ON.
C2_Witness ==
    /\ pc = "loop"
    /\ Len(mode1Data.tail) = 2
    /\ mode1Data.tail[1].heaterOn
    /\ mode1Data.tail[2].heaterOn
    /\ mode1Data.tail[1].temperature > LowerThreshold + FX \div 10
    /\ mode1Data.tail[1].temperature < UpperThreshold - FX \div 10

\* The configurations the specification calls invalid.
InvalidConfiguration ==
    \/ insulation <= 0
    \/ houseHeatCapacity <= 0
    \/ SECONDS_PER_STEP <= 0
    \/ HOURS_SIMULATED <= 0

\* C3: when the constant-mode total energy is zero (the mode-1 heater never
\* turns on during a run over a valid configuration) the savings percentage
\* is reported as 0 or as an explicit flag; the summary never holds a NaN or
\* an infinite savings value.
C3_SavingsFinite ==
    ~InvalidConfiguration /\ pc = "idle" /\ mode1EnergyUsed = DZero =>
        summary.savings.kind = "number"

C5_MonotonicEnergy ==
    \A d \in AllSeries :
        /\ \A i \in 1..Len(d.tail) : ~DoubleLess(d.tail[i].energyUsed, DZero)
        /\ \A i \in 2..Len(d.tail) :
               ~DoubleLess(d.tail[i].energyUsed, d.tail[i - 1].energyUsed)

\* C5's case: two successive records of which the later holds more energy,
\* while the other mode's energy stayed the same.
C5_Witness ==
    /\ pc = "loop"
    /\ Len(mode1Data.tail) = 2
    /\ DoubleLess(mode1Data.tail[1].energyUsed, mode1Data.tail[2].energyUsed)
    /\ mode2Data.tail[2].energyUsed = mode2Data.tail[1].energyUsed
    /\ DoubleLess(DZero, mode2Data.tail[1].energyUsed)

\* C6: for both modes the duty cycle computed at the end of a run lies in
\* [0, 100] (in hundredths of a percent: [0, 10000]); the count of ON steps
\* never exceeds the number of steps taken.
C6_DutyCycleBound ==
    /\ 0 <= mode1HeaterOnCount /\ mode1HeaterOnCount <= step
    /\ 0 <= mode2HeaterOnCount /\ mode2HeaterOnCount <= step
    /\ step <= TOTAL_STEPS
    /\ \A c \in {summary.mode1DutyCycle, summary.mode2DutyCycle} :
           c.kind = "number" /\ 0 <= c.value /\ c.value <= 10000

\* C6's case: a finished run in which the heater was ON in both modes.
C6_Witness ==
    /\ pc = "idle"
    /\ summary.mode1DutyCycle.value > 0
    /\ summary.mode2DutyCycle.value > 0
    /\ mode1HeaterOnCount > mode2HeaterOnCount

\* The record of step s (counted from 0) carries s's hour and minute.
OfStep(r, s) == r.hour = s \div STEPS_PER_HOUR /\ r.time[1] = r.hour

\* The last elements of a series are those of its last steps, in step order.
InStepOrder(d) ==
    /\ Len(d.tail) = IF d.length < Window THEN d.length ELSE Window
    /\ \A j \in 1..Len(d.tail) : OfStep(d.tail[j], d.length - Len(d.tail) + j - 1)

\* C7: a run takes exactly TOTAL_STEPS = HOURS_SIMULATED * 3600 /
\* SECONDS_PER_STEP = 8640 iterations and yields, for each mode, exactly
\* TOTAL_STEPS records, one per step, in increasing step order.
C7_RunLength ==
    /\ TOTAL_STEPS = (HOURS_SIMULATED * 3600) \div SECONDS_PER_STEP
    /\ TOTAL_STEPS = 8640
    /\ \A d \in AllSeries : InStepOrder(d)
    /\ pc = "loop" =>
           step <= TOTAL_STEPS /\ mode1Data.length = step /\ mode2Data.length = step
    /\ pc = "idle" =>
           /\ step = TOTAL_STEPS
           /\ simulationData.mode1.length = TOTAL_STEPS
           /\ simulationData.mode2.length = TOTAL_STEPS

\* C7's case: a run has finished and stored its two series.
C7_Witness ==
    /\ pc = "idle"
    /\ simulationData.mode1.length = 8640
    /\ simulationData.mode2.length = 8640
    /\ simulationData.mode1.tail[Window].hour = 23

(***************************************************************************)
(* The runner of the specification (sections 4.1 to 4.4): one mode per     *)
(* run, one thermal state per run.  Its arithmetic is rounded as the       *)
(* model's, so that equal computations give equal numbers.                 *)
(***************************************************************************)
RunnerInit(cfg) ==
    [temp |-> cfg.desiredTemp * FX, heaterOn |-> FALSE, energy |-> DZero,
     onCount |-> 0, records |-> EmptyData]

\* 4.1: Tout = Tbase + (amplitude / 2) * sin(2 pi (hourOfDay - 9) / 24)
RunnerOutside(cfg, s) ==
    LET hourOfDay == MulDiv(FX, s, STEPS_PER_HOUR)
    IN  cfg.outsideTemp * FX
        + RoundDiv(cfg.diurnalVariation
                     * MathSin(RoundDiv(FixMul(2 * PI_FX, hourOfDay - 9 * FX), 24)), 2)

\* 4.2: the controller, rules 1 to 4.
RunnerController(mode, cfg, s, temp, previous) ==
    LET target == cfg.desiredTemp * FX
        half   == (cfg.thermostatHysteresis * FX) \div 200
    IN  IF mode = "NIGHT_SETBACK" /\ InNightWindow(s \div STEPS_PER_HOUR) THEN FALSE
        ELSE IF temp < target - half THEN TRUE
        ELSE IF temp > target + half THEN FALSE
        ELSE previous

\* 4.3: one RK4 step with the heater state and Tout held fixed.
RunnerRK4(cfg, T, heaterOn, Tout) ==
    LET heat == IF heaterOn THEN cfg.heaterOutput ELSE 0
        loss == RoundDiv(1000 * HU, cfg.insulation)
        f(x) == MulDiv(heat * HU - FixMul(x - Tout, loss), FX \div HU,
                       cfg.houseHeatCapacity)
        dt(x) == MulDiv(x, SECONDS_PER_STEP, 3600)
        k1 == f(T)
        k2 == f(T + RoundDiv(dt(k1), 2))
        k3 == f(T + RoundDiv(dt(k2), 2))
        k4 == f(T + dt(k3))
    IN  T + MulDiv(k1 + 2 * k2 + 2 * k3 + k4, SECONDS_PER_STEP, 3600 * 6)

\* 4.4: one iteration, steps 1 to 7, of the run of one mode.
RunnerStep(mode, cfg, s, st) ==
    LET Tout   == RunnerOutside(cfg, s)
        on     == RunnerController(mode, cfg, s, st.temp, st.heaterOn)
        T      == RunnerRK4(cfg, st.temp, on, Tout)
        energy == IF on
                  THEN DoubleAdd(st.energy,
                                 DoubleDivide(cfg.heaterOutput, STEPS_PER_HOUR))
                  ELSE st.energy
        rec    == [time        |-> <<Hour(s), Minute(s)>>,
                   hour        |-> s \div STEPS_PER_HOUR,
                   temperature |-> ToFixed2(T),
                   outsideTemp |-> ToFixed2(Tout),
                   heaterOn    |-> on,
                   energyUsed  |-> energy]
    IN  [temp |-> T, heaterOn |-> on, energy |-> energy,
         onCount |-> IF on THEN st.onCount + 1 ELSE st.onCount,
         records |-> Push(st.records, rec)]

\* What runSimulation holds of each mode.
Mode1State ==
    [temp |-> mode1Temp, heaterOn |-> mode1HeaterOn, energy |-> mode1EnergyUsed,
     onCount |-> mode1HeaterOnCount, records |-> mode1Data]
Mode2State ==
    [temp |-> mode2Temp, heaterOn |-> mode2HeaterOn, energy |-> mode2EnergyUsed,
     onCount |-> mode2HeaterOnCount, records |-> mode2Data]

\* The runner's steps, matched to one step of the program.
C8_IndependentStep ==
    /\ RunSimulationStart =>
        /\ Mode1State' = RunnerInit(CurrentConfig)
        /\ Mode2State' = RunnerInit(CurrentConfig)
    /\ LoopStep =>
        /\ Mode1State' = RunnerStep("CONSTANT", CurrentConfig, step, Mode1State)
        /\ Mode2State' = RunnerStep("NIGHT_SETBACK", CurrentConfig, step, Mode2State)
    /\ RunSimulationFinish =>
        /\ simulationData'.mode1 = Mode1State.records
        /\ simulationData'.mode2 = Mode2State.records

\* C8: the two modes share no mutable state: what the combined loop holds
\* and stores of each mode is what a single-mode run of the specification's
\* runner yields for that mode from that mode's state alone.
C8_ModesIndependent == [][C8_IndependentStep]_vars

\* C8's case: in the middle of a run the two modes have drifted apart.
C8_Witness ==
    /\ pc = "loop"
    /\ step > 12 * STEPS_PER_HOUR
    /\ mode1HeaterOn /\ ~mode2HeaterOn
    /\ mode1Temp > mode2Temp + FX
    /\ DoubleLess(mode2EnergyUsed, mode1EnergyUsed)

\* The last element of a non-empty series.
LastOf(d) == d.tail[Len(d.tail)]

\* One outside temperature per iteration, on one step of the program.
C9_SameOutsideStep ==
    LoopStep =>
        LET Tout == RunnerOutside(CurrentConfig, step)
        IN  /\ LastOf(mode1Data').outsideTemp = ToFixed2(Tout)
            /\ LastOf(mode2Data').outsideTemp = LastOf(mode1Data').outsideTemp
            /\ mode1Temp' = RunnerRK4(CurrentConfig, mode1Temp, mode1HeaterOn', Tout)
            /\ mode2Temp' = RunnerRK4(CurrentConfig, mode2Temp, mode2HeaterOn', Tout)

\* C9: both modes are driven by the same outdoor-temperature trace: the
\* outside temperature of the two records of a step is the same, and it is
\* the value both modes' integration of that step used.
C9_SameOutsideTrace == [][C9_SameOutsideStep]_vars

\* C9's case: the outside temperature varies over the day and the two modes
\* differ, yet their records of the last step hold the same outside value.
C9_Witness ==
    /\ pc = "loop"
    /\ Len(mode1Data.tail) = 2
    /\ mode1Data.tail[2].outsideTemp # mode1Data.tail[1].outsideTemp
    /\ mode1Data.tail[2].outsideTemp # outsideTemp * FX
    /\ mode1Data.tail[2].heaterOn # mode2Data.tail[2].heaterOn
    /\ mode1Data.tail[2].temperature # mode2Data.tail[2].temperature
    /\ mode1Data.tail[2].outsideTemp = mode2Data.tail[2].outsideTemp

\* The literal scenario: outside 30, desired 68, insulation 5, heater output
\* 60000, heat capacity 4000, diurnal amplitude 0, band 2, 10-second steps,
\* 24 hours.
LiteralScenario ==
    /\ CurrentConfig = Config(30, 68, 5, 4000, 60000, 0, 200)
    /\ SECONDS_PER_STEP = 10
    /\ HOURS_SIMULATED = 24

\* "approximately [67, 69]": within 0.05 F of the interval.
Approximately(T, lo, hi) == lo * FX - FX \div 20 <= T /\ T <= hi * FX + FX \div 20

\* The literal scenario's constant mode on one step of the program.
C10_LiteralStep ==
    /\ LiteralScenario /\ LoopStep =>
        /\ Approximately(mode1Temp', 67, 69)
        /\ mode1HeaterOn' => mode1Temp' - mode1Temp >= (3 * FX) \div 100
        /\ ~mode1HeaterOn' => mode1Temp - mode1Temp' >= (5 * FX) \div 1000
    /\ LiteralScenario /\ RunSimulationFinish =>
        /\ DoubleLess(DZero, mode1EnergyUsed)
        /\ summary'.mode1Energy.value > 0

\* C10: in the literal scenario, constant mode, the indoor temperature stays
\* within approximately [67, 69] F at every step; it rises by at least 0.03 F
\* in every step with the heater ON and falls by at least 0.005 F in every
\* step with the heater OFF, so that the heater can stay neither ON nor OFF
\* and switches again and again; the constant-mode total energy is > 0.
C10_LiteralConstant == [][C10_LiteralStep]_vars

\* C10's case: late in the literal scenario's run the heater, which has been
\* ON for many steps by then, switches from OFF to ON once more.
C10_Witness ==
    /\ LiteralScenario
    /\ pc = "loop"
    /\ step > 20 * STEPS_PER_HOUR
    /\ mode1HeaterOnCount > 900
    /\ Len(mode1Data.tail) = 2
    /\ ~mode1Data.tail[1].heaterOn
    /\ mode1Data.tail[2].heaterOn

\* C11: in the literal scenario the night-setback run uses strictly less
\* total energy than the constant run, and the reported savings percentage
\* is greater than 0.
C11_LiteralSavings ==
    LiteralScenario /\ pc = "idle" =>
        /\ DoubleLess(mode2EnergyUsed, mode1EnergyUsed)
        /\ summary.mode2Energy.value < summary.mode1Energy.value
        /\ summary.savings.kind = "number"
        /\ summary.savings.value > 0

\* C11's case: the literal scenario's run has finished; it reports 185500
\* BTU against 154000 BTU, savings of 16.98 percent.
C11_Witness ==
    /\ LiteralScenario
    /\ pc = "idle"
    /\ summary.mode1Energy.value = 185500
    /\ summary.mode2Energy.value = 154000
    /\ summary.savings = Printed(1698)

\* The indoor temperatures of the state: the two running values and the
\* temperatures of the records kept.
IndoorTemps ==
    {mode1Temp, mode2Temp}
        \cup UNION {{r.temperature : r \in Range(d.tail)} : d \in AllSeries}

\* The starting value of a run's indoor temperature (lines 110, 117).
StartTemp == desiredTemp * FX

OutdoorPeakBelowStart == 2 * outsideTemp + diurnalVariation <= 2 * desiredTemp

Towards(T0, T1, Tout) ==
    /\ T0 >= Tout => Tout <= T1 /\ T1 <= T0
    /\ T0 <= Tout => T0 <= T1 /\ T1 <= Tout

\* With no heat, one step of the loop moves both temperatures towards the
\* step's outside temperature.
C13_CoolingStep ==
    LoopStep /\ heaterOutput = 0 =>
        /\ Towards(mode1Temp, mode1Temp', effectiveOutsideTemp)
        /\ Towards(mode2Temp, mode2Temp', effectiveOutsideTemp)

\* C13: with heaterOutput = 0, in every step the indoor temperature moves
\* toward that step's outdoor temperature: its distance from the outdoor
\* temperature after the integration is no larger than before, and it does
\* not cross to the other side of the outdoor temperature.
C13_CoolingOnly == [][C13_CoolingStep]_vars

\* C13's case: no heat, the indoor temperature above its starting value and
\* above the outside temperature, and falling.
C13_Witness ==
    /\ heaterOutput = 0
    /\ pc = "loop"
    /\ Len(mode1Data.tail) = 2
    /\ mode1Temp > StartTemp + FX
    /\ mode1Data.tail[2].temperature > mode1Data.tail[2].outsideTemp
    /\ mode1Data.tail[2].temperature < mode1Data.tail[1].temperature

\* The lower threshold of a thermostat set back to 55 F.
SetbackLowerThreshold == 55 * FX - (thermostatHysteresis * FX) \div 200

\* A night step of mode 2 taken below the setback thermostat's lower
\* threshold turns the heater ON.
C14_SetbackStep ==
    LoopStep /\ InNightWindow(Hour(step)) /\ mode2Temp < SetbackLowerThreshold =>
        mode2HeaterOn'

\* C14: in mode 2, between 10 PM and 8 AM the thermostat remains active with
\* its target lowered to 55 F: during the night window the heater turns ON
\* when the indoor temperature falls below the 55-degree target's lower
\* threshold, instead of being unconditionally off.
C14_NightSetback55 == [][C14_SetbackStep]_vars

\* The runner's run of one mode over steps lo .. hi - 1, from state st.
RECURSIVE RunnerRun(_, _, _, _, _)
RunnerRun(mode, cfg, st, lo, hi) ==
    IF hi <= lo THEN st
    ELSE IF hi = lo + 1 THEN RunnerStep(mode, cfg, lo, st)
    ELSE LET mid  == (lo + hi) \div 2
             left == RunnerRun(mode, cfg, st, lo, mid)
         IN  \* (the first half is computed before the second is entered)
             IF left.onCount >= 0 THEN RunnerRun(mode, cfg, left, mid, hi) ELSE st

\* What a whole run over the configuration cfg stores: both series and the
\* summary of lines 235-248.
RunOver(cfg) ==
    LET r1 == RunnerRun("CONSTANT", cfg, RunnerInit(cfg), 0, TOTAL_STEPS)
        r2 == RunnerRun("NIGHT_SETBACK", cfg, RunnerInit(cfg), 0, TOTAL_STEPS)
    IN  [simulationData |-> [mode1 |-> r1.records, mode2 |-> r2.records],
         summary |-> [mode1Energy    |-> EnergyFixed0(r1.energy),
                      mode2Energy    |-> EnergyFixed0(r2.energy),
                      savings        |-> Savings(r1.energy, r2.energy),
                      mode1DutyCycle |-> DutyCycle(r1.onCount),
                      mode2DutyCycle |-> DutyCycle(r2.onCount)]]

\* One step of the component, as C15 has it.
C15_RerunStep ==
    \* a parameter changes only while no run is under way, and a run follows
    /\ params' # params => pc = "idle" /\ pc' = "effect" /\ UNCHANGED stored
    \* the run that finishes stores the results of the current parameters
    /\ RunSimulationFinish =>
           LET r == RunOver(CurrentConfig)
           IN  /\ simulationData' = r.simulationData
               /\ summary' = r.summary
               /\ pc' = "idle"
    \* nothing else stores anything
    /\ ~RunSimulationFinish => UNCHANGED stored
    \* the toggles change neither parameters nor results, and start no run
    /\ toggles' # toggles => UNCHANGED <<params, stored, pc>>

Distance(a, b) ==
    IF DoubleLess(a, b)
    THEN Carry(<<b[1] - a[1], b[2] - a[2], b[3] - a[3], b[4] - a[4]>>)
    ELSE Carry(<<a[1] - b[1], a[2] - b[2], a[3] - b[3], a[4] - b[4]>>)

\* The energy e is the double that onCount * heaterOutput / STEPS_PER_HOUR
\* evaluates to: the double nearest to the quotient.
ExactEnergy(e, onCount) == e = DoubleDivide(onCount * heaterOutput, STEPS_PER_HOUR)

\* C16 as stated: after every step, and at the end, the cumulative energy of
\* each mode equals (number of ON steps so far) * heaterOutput /
\* stepsPerHour exactly.
C16_EnergyExact ==
    /\ ExactEnergy(mode1EnergyUsed, mode1HeaterOnCount)
    /\ ExactEnergy(mode2EnergyUsed, mode2HeaterOnCount)

\* 2^-18 BTU (in units of 2^-48: 2^30), more than TOTAL_STEPS roundings of
\* a sum below 2^22 can add up to.
Tolerance == <<0, 2^10, 0, 0>>

\* The energy e is onCount * heaterOutput / STEPS_PER_HOUR to within the
\* tolerance: | STEPS_PER_HOUR * e - onCount * heaterOutput | <=
\* STEPS_PER_HOUR * Tolerance.
NearEnergy(e, onCount) ==
    ~DoubleLess(Times(Tolerance, STEPS_PER_HOUR),
                Distance(Times(e, STEPS_PER_HOUR), Exact(onCount * heaterOutput)))

\* The accumulation rule of one mode on one step: (e0, n0) before, (e1, n1)
\* after, the heater state decided in the step being on.
Accumulates(e0, n0, e1, n1, on) ==
    /\ on  => /\ e1 = DoubleAdd(e0, DoubleDivide(heaterOutput, STEPS_PER_HOUR))
              /\ n1 = n0 + 1
    /\ ~on => /\ e1 = e0
              /\ n1 = n0
    /\ NearEnergy(e1, n1)

\* The accumulation of C16 on one step of the program.
C16_EnergyStep ==
    /\ RunSimulationStart =>
           /\ mode1EnergyUsed' = DZero /\ mode1HeaterOnCount' = 0
           /\ mode2EnergyUsed' = DZero /\ mode2HeaterOnCount' = 0
    /\ LoopStep =>
           /\ Accumulates(mode1EnergyUsed, mode1HeaterOnCount,
                          mode1EnergyUsed', mode1HeaterOnCount', mode1HeaterOn')
           /\ Accumulates(mode2EnergyUsed, mode2HeaterOnCount,
                          mode2EnergyUsed', mode2HeaterOnCount', mode2HeaterOn')
           /\ LastOf(mode1Data').energyUsed = mode1EnergyUsed'
           /\ LastOf(mode2Data').energyUsed = mode2EnergyUsed'
    /\ RunSimulationFinish =>
           /\ NearEnergy(mode1EnergyUsed, mode1HeaterOnCount)
           /\ NearEnergy(mode2EnergyUsed, mode2HeaterOnCount)

\* C16, amended: in each step and for each mode the cumulative energy
\* becomes the double sum of itself and heaterOutput / stepsPerHour if the
\* heater is ON in that step and is unchanged otherwise; hence after every
\* step, and at the end, it equals (number of ON steps so far) *
\* heaterOutput / stepsPerHour to within the rounding of the additions
\* (2^-18 BTU), not exactly.
C16_EnergyRounded == [][C16_EnergyStep]_vars

\* C16's case: the heater has just been ON for the sixth time; the sum of
\* six times 60000/360 is not the double 1000.
C16_Witness ==
    /\ pc = "loop"
    /\ heaterOutput = 60000
    /\ mode1HeaterOnCount = 6
    /\ mode1Data.tail[Len(mode1Data.tail)].heaterOn
    /\ mode1EnergyUsed # DoubleDivide(6 * 60000, STEPS_PER_HOUR)
    /\ NearEnergy(mode1EnergyUsed, 6)

\* The order of C17 within one step of the program.
C17_OrderStep ==
    LoopStep =>
        LET \* the decisions, taken on the temperatures the step starts with
            on1  == Hysteresis(mode1Temp, mode1HeaterOn)
            on2  == IF InNightWindow(Hour(step)) THEN FALSE
                    ELSE Hysteresis(mode2Temp, mode2HeaterOn)
            \* the step's one outside sample
            Tout == RunnerOutside(CurrentConfig, step)
        IN  /\ mode1HeaterOn' = on1
            /\ mode2HeaterOn' = on2
            \* the integration uses the new heater states and Tout throughout
            /\ mode1Temp' = RunnerRK4(CurrentConfig, mode1Temp, on1, Tout)
            /\ mode2Temp' = RunnerRK4(CurrentConfig, mode2Temp, on2, Tout)
            \* the records hold the new temperatures and the new heater states
            /\ LastOf(mode1Data') =
                   Mode1Record(step, mode1Temp', Tout, on1, mode1EnergyUsed')
            /\ LastOf(mode2Data') =
                   Mode2Record(step, mode2Temp', Tout, on2, mode2EnergyUsed')
            \* the temperatures the step starts with are those of the step before
            /\ step > 0 =>
                   /\ LastOf(mode1Data).temperature = ToFixed2(mode1Temp)
                   /\ LastOf(mode2Data).temperature = ToFixed2(mode2Temp)

\* C17: within one step the controller decision comes before the
\* integration: the temperature is advanced with the heater state decided in
\* that same step and the step's single outside sample, both held fixed over
\* the four RK4 stages; the step's record holds the temperature after the
\* integration and the heater state decided in the step; the temperature
\* computed in a step is what the next step's decision reads.
C17_DecisionBeforeIntegration == [][C17_OrderStep]_vars

\* C17's case: at 08:00 the mode-2 heater comes on, and the record of that
\* very step already shows the temperature rising.
C17_Witness ==
    /\ pc = "loop"
    /\ Len(mode2Data.tail) = 2
    /\ mode2Data.tail[1].hour = 7
    /\ mode2Data.tail[2].hour = 8
    /\ ~mode2Data.tail[1].heaterOn
    /\ mode2Data.tail[2].heaterOn
    /\ mode2Data.tail[2].temperature > mode2Data.tail[1].temperature

====
